---- MODULE Spec2Model ----
(***************************************************************************)
(* Model of the three edge functions of src/unnamed/part_001.              *)
(*                                                                         *)
(* The execute-trade function (lines 398-542) runs against the user_assets *)
(* and transactions tables of the migration.  Every await on the datastore *)
(* is one step of a request, so concurrent requests interleave between the *)
(* select, the ownership write and the transaction insert (Spec, SeqSpec). *)
(*                                                                         *)
(* The two load-curve analyzer functions (lines 1-247 and 248-397) serve   *)
(* one request: parseCSV and analyzeLoadCurve applied to CSV texts         *)
(* (AnalysisSpec), and the handlers with their call of the AI gateway      *)
(* (AnalyzerSpec).                                                         *)
(***************************************************************************)
EXTENDS Integers, Sequences, FiniteSets, TLC

\* ------------------------------------------------------------------ bounds
\* number of trade requests that arrive (numbered in order of arrival)
MaxRequests == 3

\* number of requests the platform runs at the same time
MaxInFlight == 2

\* number of datastore calls that fail for a reason of the platform
\* (connection lost, timeout), over one behaviour
MaxFailures == 1

\* number of lines a generated CSV text holds after its first line
MaxSamples == 3

\* number of tokens of a generated reply of the model
MaxReplyLen == 3

\* ------------------------------------------------------------- input sets
Requests == 1..MaxRequests

\* a JSON field that is missing from the body (undefined) is the empty
\* sequence, a numeric field that is present is a one-element sequence
None == <<>>

Some(n) == <<n>>

\* SQL NULL in buyer_id / seller_id
NULL == "NULL"

\* the profiles and assets the requests name; all of them exist, so the
\* foreign keys of user_assets and transactions never refuse a row
UserIds == {"u1", "u2"}

AssetIds == {"a1", "a2"}

\* a well-formed request body; the bodies below are obtained from it by
\* changing one field at a time
BaseInput == [assetId |-> "a1", userId |-> "u1", percentage |-> Some(10),
              mode |-> "buy", pricePerPercent |-> Some(3)]

WellFormedInputs ==
     {[BaseInput EXCEPT !.mode = m] : m \in {"buy", "sell"}}
  \cup {[BaseInput EXCEPT !.userId = u] : u \in UserIds}

\* a body with the largest percentage the validation lets through
FullInputs == {[BaseInput EXCEPT !.percentage = Some(100)]}

\* a body whose mode is a string other than buy and sell
OtherModeInputs == {[BaseInput EXCEPT !.mode = "hold"]}

\* bodies of trades of two users in two assets: a buy and a sale of the first
\* user in the first asset, a buy of the other user in it, a buy of the first
\* user in the other asset
PairInputs ==
     {[BaseInput EXCEPT !.mode = m] : m \in {"buy", "sell"}}
  \cup {[BaseInput EXCEPT !.userId = "u2"]}
  \cup {[BaseInput EXCEPT !.assetId = "a2"]}

BrokenInputs ==
     {[BaseInput EXCEPT !.assetId = ""], [BaseInput EXCEPT !.userId = ""],
      [BaseInput EXCEPT !.mode = ""]}
  \cup {[BaseInput EXCEPT !.percentage = p] : p \in {None, Some(0), Some(0 - 10), Some(101)}}
  \cup {[BaseInput EXCEPT !.pricePerPercent = p] : p \in {None, Some(0)}}

Inputs == WellFormedInputs \cup FullInputs \cup OtherModeInputs \cup BrokenInputs

\* the request body before the request has arrived
NoInput == [assetId |-> "", userId |-> "", percentage |-> None,
            mode |-> "", pricePerPercent |-> None]

\* ---------------------------------------------------------- error messages
ErrMissing == "Missing required fields"

ErrInvalidPercentage == "Invalid percentage"

ErrFetch == "Failed to fetch current ownership"

ErrOverbuy == "Cannot own more than 100% of an asset"

ErrInsufficient == "Insufficient ownership to sell"

ErrUpdate == "Failed to update ownership"

ErrCreate == "Failed to create ownership"

ErrTransaction == "Failed to record transaction"

ValidationErrors == {ErrMissing, ErrInvalidPercentage}

BusinessErrors == {ErrOverbuy, ErrInsufficient}

PersistenceErrors == {ErrFetch, ErrUpdate, ErrCreate, ErrTransaction}

\* --------------------------------------------------------------- responses
NoResponse == [status |-> 0, error |-> "", newOwnership |-> 0]

\* a success response that carries no ownership
SuccessResponseNoOwnership(newPercent) == [status |-> 200, error |-> "", newOwnership |-> 0]

SuccessResponse(newPercent) == [status |-> 200, error |-> "", newOwnership |-> newPercent]

ErrorResponse(msg) == [status |-> 400, error |-> msg, newOwnership |-> 0]

\* ------------------------------------------------------------- pure parts
\* JavaScript !x for a string field and for a numeric field
FalsyString(s) == s = ""

FalsyNumber(n) == n = None \/ n[1] = 0

\* ValidationError without the upper limit of the percentage
ValidationErrorNoUpperLimit(input) ==
  IF \/ FalsyString(input.assetId) \/ FalsyString(input.userId)
     \/ FalsyNumber(input.percentage) \/ FalsyString(input.mode)
     \/ FalsyNumber(input.pricePerPercent)
  THEN ErrMissing
  ELSE IF input.percentage[1] <= 0
       THEN ErrInvalidPercentage
       ELSE ""

\* the two validation throws; "" when the body passes
ValidationError(input) ==
  IF \/ FalsyString(input.assetId) \/ FalsyString(input.userId)
     \/ FalsyNumber(input.percentage) \/ FalsyString(input.mode)
     \/ FalsyNumber(input.pricePerPercent)
  THEN ErrMissing
  ELSE IF input.percentage[1] <= 0 \/ input.percentage[1] > 100
       THEN ErrInvalidPercentage
       ELSE ""

\* rows of user_assets matching .eq('user_id', u).eq('asset_id', a)
MatchingRows(table, u, a) == {row \in table : row.user_id = u /\ row.asset_id = a}

\* currentOwnership ? Number(currentOwnership.ownership_percent) : 0
CurrentPercent(rows) == IF rows = {} THEN 0 ELSE (CHOOSE row \in rows : TRUE).ownership_percent

\* TradeError with the buy limit off by one: 100% itself is refused
TradeErrorBuyLimitOffByOne(mode, currentPercent, percentage) ==
  IF mode = "buy"
  THEN IF currentPercent + percentage >= 100 THEN ErrOverbuy ELSE ""
  ELSE IF currentPercent < percentage THEN ErrInsufficient ELSE ""

\* TradeError without the throw of the else branch
TradeErrorNoSellCheck(mode, currentPercent, percentage) ==
  IF mode = "buy"
  THEN IF currentPercent + percentage > 100 THEN ErrOverbuy ELSE ""
  ELSE ""

\* the business-rule throw of the buy / else branch; "" when the trade passes
TradeError(mode, currentPercent, percentage) ==
  IF mode = "buy"
  THEN IF currentPercent + percentage > 100 THEN ErrOverbuy ELSE ""
  ELSE IF currentPercent < percentage THEN ErrInsufficient ELSE ""

NewPercent(mode, currentPercent, percentage) ==
  IF mode = "buy" THEN currentPercent + percentage ELSE currentPercent - percentage

\* TotalPrice adding where the code multiplies
TotalPriceSum(percentage, pricePerPercent) == percentage + pricePerPercent

\* const totalPrice = percentage * pricePerPercent
TotalPrice(percentage, pricePerPercent) == percentage * pricePerPercent

\* TransactionRow naming the acting user as buyer and as seller
TransactionRowBothParties(input) ==
  [asset_id |-> input.assetId,
   buyer_id |-> input.userId,
   seller_id |-> input.userId,
   percent_traded |-> input.percentage[1],
   price_per_percent |-> input.pricePerPercent[1],
   total_price |-> TotalPrice(input.percentage[1], input.pricePerPercent[1]),
   transaction_type |-> input.mode]

\* the row handed to transactions.insert
TransactionRow(input) ==
  [asset_id |-> input.assetId,
   buyer_id |-> IF input.mode = "buy" THEN input.userId ELSE NULL,
   seller_id |-> IF input.mode = "sell" THEN input.userId ELSE NULL,
   percent_traded |-> input.percentage[1],
   price_per_percent |-> input.pricePerPercent[1],
   total_price |-> TotalPrice(input.percentage[1], input.pricePerPercent[1]),
   transaction_type |-> input.mode]

\* ------------------------------------------------------------ the datastore
\* CHECK (ownership_percent > 0 AND ownership_percent <= 100)
OwnershipCheck(p) == p > 0 /\ p <= 100

\* CHECK constraints of transactions
TransactionCheck(row) ==
  /\ row.percent_traded > 0 /\ row.percent_traded <= 100
  /\ row.transaction_type \in {"buy", "sell"}

\* InsertOwnershipAllowed without the UNIQUE(user_id, asset_id) constraint
InsertOwnershipAllowedNoUnique(table, row) == OwnershipCheck(row.ownership_percent)

\* INSERT INTO user_assets: refused by UNIQUE(user_id, asset_id) or the CHECK
InsertOwnershipAllowed(table, row) ==
  /\ MatchingRows(table, row.user_id, row.asset_id) = {}
  /\ OwnershipCheck(row.ownership_percent)

InsertOwnership(table, row) == table \cup {row}

\* UPDATE user_assets: refused by the CHECK when a row is to be changed
UpdateOwnershipAllowed(table, u, a, p) == MatchingRows(table, u, a) = {} \/ OwnershipCheck(p)

\* UPDATE user_assets SET ownership_percent = p WHERE user_id = u AND asset_id = a
UpdateOwnership(table, u, a, p) ==
  {IF row.user_id = u /\ row.asset_id = a
   THEN [row EXCEPT !.ownership_percent = p] ELSE row : row \in table}

\* DeleteOwnership without the filter on the asset
DeleteOwnershipOfUser(table, u, a) == {row \in table : row.user_id # u}

\* DELETE FROM user_assets WHERE user_id = u AND asset_id = a
DeleteOwnership(table, u, a) == table \ MatchingRows(table, u, a)

\* InsertTransaction putting the new row in front of the others
InsertTransactionInFront(log, row) == <<row>> \o log

\* INSERT INTO transactions
InsertTransaction(log, row) == Append(log, row)

\* ------------------------------------------- the load-curve analyzer: CSV
\* A CSV text is the sequence of its lines (content.split('\n') never gives
\* an empty array), a line the sequence of its fields (line.split(',')), a
\* field None when it is the empty string and Some(n) when it holds text.
\* A timestamp field holds what new Date() makes of it: the number of hours
\* since midnight of the first day, or InvalidDate.
InvalidDate == 0 - 1

BlankLine == <<None>>

\* the empty string
EmptyText == <<BlankLine>>

\* the body has no fileContent
NoContent == <<>>

Row(timestamp, value) == <<Some(timestamp), Some(value)>>

\* the line 'timestamp,value': its fields hold text that is no date and no
\* number; the parser never reads it when it comes first
HeaderLine == <<Some(InvalidDate), Some(0)>>

\* samples of the four times of day, and a sample of no consumption
BucketHours == {3, 9, 15, 21}

SampleValues == {1, 2}

PatternRows == {Row(h, v) : h \in BucketHours, v \in SampleValues} \cup {Row(15, 0)}

\* samples on the edges of the buckets, on the next day and with a text
\* that is no date
EdgeHours == {0, 5, 6, 11, 12, 17, 18, 23}

EdgeRows == {Row(h, 1) : h \in EdgeHours \cup {24 + 9, InvalidDate}}

\* lines that are no sample: '', ',', '9', ',1', '9,' ; and '9,1,2'
OddLines ==
  {BlankLine, <<None, None>>, <<Some(9)>>, <<None, Some(1)>>, <<Some(9), None>>,
   <<Some(9), Some(1), Some(2)>>}

\* the lines a text starts with: a header, a blank line before the header,
\* a sample where the header should be
Heads == {<<HeaderLine>>, <<BlankLine, HeaderLine>>, <<Row(15, 2)>>}

\* the sequences of at most MaxSamples lines of S
Series(S) == UNION {[1..n -> S] : n \in 0..MaxSamples}

\* a header and one sample of 10 for every hour of one day
DayOfTens == <<HeaderLine>> \o [i \in 1..24 |-> Row(i - 1, 10)]

\* a header and samples with 40% of the consumption in the afternoon, 30% in
\* the night and 30% in the evening
AfternoonForty == <<HeaderLine, Row(3, 3), Row(15, 4), Row(21, 3)>>

\* texts that hold no sample, and the two examples
NamedTexts == {EmptyText, <<BlankLine, BlankLine>>, DayOfTens, AfternoonForty}

\* a line of white space only
Blank(line) == line = BlankLine

RECURSIVE TrimStart(_)
TrimStart(lines) ==
  IF lines = <<>> \/ ~Blank(Head(lines)) THEN lines ELSE TrimStart(Tail(lines))

RECURSIVE TrimEnd(_)
TrimEnd(lines) ==
  IF lines = <<>> \/ ~Blank(lines[Len(lines)]) THEN lines
  ELSE TrimEnd(SubSeq(lines, 1, Len(lines) - 1))

\* content.trim().split('\n'): the white space at both ends is dropped, and
\* with it the blank lines there
TrimmedLines(content) ==
  LET lines == TrimEnd(TrimStart(content))
  IN IF lines = <<>> THEN EmptyText ELSE lines

\* if (timestamp && value): both fields are there and not empty
IsSample(line) == Len(line) >= 2 /\ line[1] # None /\ line[2] # None

\* the samples of all lines, the first included
parseCSVKeepsFirstLine(content) ==
  LET rows == SelectSeq(TrimmedLines(content), IsSample)
  IN [i \in 1..Len(rows) |-> [timestamp |-> rows[i][1][1], value |-> rows[i][2][1]]]

\* the samples of the lines after the first
parseCSV(content) ==
  LET rows == SelectSeq(Tail(TrimmedLines(content)), IsSample)
  IN [i \in 1..Len(rows) |-> [timestamp |-> rows[i][1][1], value |-> rows[i][2][1]]]

\* ------------------------------------- the load-curve analyzer: statistics
\* A number of the analysis is the fraction num/den with den >= 0; a zero
\* denominator stands for what a division by zero gives: NaN for 0/0,
\* Infinity or -Infinity otherwise.
Fraction(num, den) ==
  IF den < 0 THEN [num |-> 0 - num, den |-> 0 - den] ELSE [num |-> num, den |-> den]

NaN == Fraction(0, 0)

IsNaN(q) == q.den = 0 /\ q.num = 0

\* a === b
StrictEquals(a, b) == ~IsNaN(a) /\ ~IsNaN(b) /\ a.num * b.den = b.num * a.den

\* a > n for an integer n
GreaterThan(a, n) == a.den > 0 /\ a.num > n * a.den

\* Math.max of a set of numbers, none of them infinite
MathMax(S) ==
  IF \E q \in S : IsNaN(q) THEN NaN
  ELSE CHOOSE q \in S : \A r \in S : r.num * q.den <= q.num * r.den

RECURSIVE Power10(_)
Power10(digits) == IF digits = 0 THEN 1 ELSE 10 * Power10(digits - 1)

\* n/d rounded to the nearest integer, halves away from zero (d > 0)
RoundDiv(n, d) ==
  IF n >= 0 THEN (2 * n + d) \div (2 * d) ELSE 0 - ((2 * (0 - n) + d) \div (2 * d))

\* Number.prototype.toFixed: the text of the number with so many digits
\* after the point, here the number of units of the last digit
toFixed(q, digits) ==
  IF q.den = 0
  THEN [text |-> IF q.num = 0 THEN "NaN" ELSE IF q.num > 0 THEN "Infinity" ELSE "-Infinity",
        units |-> 0, digits |-> digits]
  ELSE [text |-> "number", units |-> RoundDiv(q.num * Power10(digits), q.den),
        digits |-> digits]

RECURSIVE SumValues(_)
\* data.reduce((sum, d) => sum + d.value, 0)
SumValues(data) ==
  IF data = <<>> THEN 0 ELSE Head(data).value + SumValues(Tail(data))

\* the smallest value taken for the peak
PeakValueSmallest(data) ==
  CHOOSE v \in {data[i].value : i \in DOMAIN data} :
    \A i \in DOMAIN data : v <= data[i].value

\* Math.max(...data.map(d => d.value))
PeakValue(data) ==
  CHOOSE v \in {data[i].value : i \in DOMAIN data} :
    \A i \in DOMAIN data : data[i].value <= v

\* the average per day: the total over the days between the first and the
\* last sample; an invalid date makes the difference NaN
AvgDaily(data) ==
  LET firstDate == data[1].timestamp
      lastDate == data[Len(data)].timestamp
  IN IF firstDate = InvalidDate \/ lastDate = InvalidDate THEN NaN
     ELSE Fraction(SumValues(data) * 24, lastDate - firstDate)

\* the bucket of a sample: the if-else chain on its hour; no comparison
\* holds of the NaN that getHours() gives for an invalid date
Bucket(timestamp) ==
  LET hour == timestamp % 24
      valid == timestamp # InvalidDate
  IN IF valid /\ hour >= 0 /\ hour < 6 THEN "night"
     ELSE IF valid /\ hour >= 6 /\ hour < 12 THEN "morning"
     ELSE IF valid /\ hour >= 12 /\ hour < 18 THEN "afternoon"
     ELSE "evening"

BucketNames == {"night", "morning", "afternoon", "evening"}

\* the sum of the values the forEach adds to each bucket
timeSlots(data) ==
  [b \in BucketNames |->
     SumValues(SelectSeq(data, LAMBDA d : Bucket(d.timestamp) = b))]

\* each bucket's share of the total, in percent
timeSlotPercentages(data) ==
  [b \in BucketNames |-> Fraction(timeSlots(data)[b] * 100, SumValues(data))]

\* the label with the tests on the maximum left out
patternByThresholdOnly(percentages) ==
  IF GreaterThan(percentages["afternoon"], 35) THEN "daytime-driven"
  ELSE IF GreaterThan(percentages["evening"], 35) THEN "evening-driven"
  ELSE IF GreaterThan(percentages["night"], 30) THEN "night-driven"
  ELSE "mixed"

\* the label with the test of the evening before the test of the afternoon
patternEveningFirst(percentages) ==
  LET max == MathMax({percentages[b] : b \in BucketNames})
  IN IF StrictEquals(percentages["evening"], max) /\ GreaterThan(percentages["evening"], 35)
     THEN "evening-driven"
     ELSE IF StrictEquals(percentages["afternoon"], max) /\ GreaterThan(percentages["afternoon"], 35)
     THEN "daytime-driven"
     ELSE IF StrictEquals(percentages["night"], max) /\ GreaterThan(percentages["night"], 30)
     THEN "night-driven"
     ELSE "mixed"

\* the label of the consumption pattern
pattern(percentages) ==
  LET max == MathMax({percentages[b] : b \in BucketNames})
  IN IF StrictEquals(percentages["afternoon"], max) /\ GreaterThan(percentages["afternoon"], 35)
     THEN "daytime-driven"
     ELSE IF StrictEquals(percentages["evening"], max) /\ GreaterThan(percentages["evening"], 35)
     THEN "evening-driven"
     ELSE IF StrictEquals(percentages["night"], max) /\ GreaterThan(percentages["night"], 30)
     THEN "night-driven"
     ELSE "mixed"

ErrNoData == "No data to analyze"

\* no analysis was made, or analyzeLoadCurve threw
NoAnalysis(msg) ==
  [error |-> msg, totalConsumption |-> toFixed(NaN, 2),
   avgDailyConsumption |-> toFixed(NaN, 2), peakLoad |-> toFixed(NaN, 4),
   timeOfDay |-> [b \in BucketNames |-> toFixed(NaN, 1)],
   pattern |-> "", dataPoints |-> 0]

\* analyzeLoadCurve without the check for an empty series
analyzeLoadCurveOfAnything(data) ==
  IF Len(data) = 0 THEN NoAnalysis("")
  ELSE [error |-> "",
        totalConsumption |-> toFixed(Fraction(SumValues(data), 1), 2),
        avgDailyConsumption |-> toFixed(AvgDaily(data), 2),
        peakLoad |-> toFixed(Fraction(PeakValue(data), 1), 4),
        timeOfDay |-> [b \in BucketNames |-> toFixed(timeSlotPercentages(data)[b], 1)],
        pattern |-> pattern(timeSlotPercentages(data)),
        dataPoints |-> Len(data)]

analyzeLoadCurve(data) ==
  IF Len(data) = 0 THEN NoAnalysis(ErrNoData)
  ELSE [error |-> "",
        totalConsumption |-> toFixed(Fraction(SumValues(data), 1), 2),
        avgDailyConsumption |-> toFixed(AvgDaily(data), 2),
        peakLoad |-> toFixed(Fraction(PeakValue(data), 1), 4),
        timeOfDay |-> [b \in BucketNames |-> toFixed(timeSlotPercentages(data)[b], 1)],
        pattern |-> pattern(timeSlotPercentages(data)),
        dataPoints |-> Len(data)]

\* ---------------------------------- the load-curve analyzer: model replies
\* The text the model replies with is a sequence of tokens: the two braces,
\* "p" a piece of prose without braces, "k" the key "recommended_mix": ,
\* "n" the members "PV": 40, "Wind": 35, "Battery": 25, "s" the same three
\* members with values that are no numbers, "x" a member with another key.
ReplyTokens == {"{", "}", "p", "k", "n", "s", "x"}

\* the object the prompt asks for
RecommendedMix == <<"{", "k", "{", "n", "}", "}">>

\* objects a reply can hold
ReplyObjects ==
  {RecommendedMix,
   <<"{", "k", "{", "s", "}", "}">>,
   <<"{", "k", "{", "x", "}", "}">>,
   <<"{", "n", "}">>,
   <<"{", "x", "}">>,
   <<"{", "}">>}

\* prose around the object, without and with braces of its own
ReplyProse == {<<>>, <<"p">>, <<"p", "{", "p", "}", "p">>}

\* the replies of the model: an object with prose before and after it, and
\* every short sequence of tokens; the empty sequence is a reply without
\* content
Replies ==
  {before \o object \o after :
     before \in ReplyProse, object \in ReplyObjects, after \in ReplyProse}
    \cup UNION {[1..n -> ReplyTokens] : n \in 0..MaxReplyLen}

\* the value of a JSON object: the object under recommended_mix if it has
\* one, what its PV, Wind and Battery members hold, whether it has a member
\* of another key
EmptyObject == [recommended_mix |-> None, fields |-> "absent", other |-> FALSE]

ParseFailed == [end |-> 0, value |-> EmptyObject]

RECURSIVE ParseObject(_, _)
RECURSIVE ParseMembers(_, _, _)
\* the members from token i on, added to the object read so far; stops at
\* the first token that starts no member
ParseMembers(text, i, object) ==
  IF i > Len(text) THEN [end |-> i, value |-> object]
  ELSE IF text[i] = "n" THEN ParseMembers(text, i + 1, [object EXCEPT !.fields = "numeric"])
  ELSE IF text[i] = "s" THEN ParseMembers(text, i + 1, [object EXCEPT !.fields = "text"])
  ELSE IF text[i] = "x" THEN ParseMembers(text, i + 1, [object EXCEPT !.other = TRUE])
  ELSE IF text[i] = "k"
       THEN LET inner == ParseObject(text, i + 1)
            IN IF inner.end = 0 THEN ParseFailed
               ELSE ParseMembers(text, inner.end,
                                 [object EXCEPT !.recommended_mix = <<inner.value>>])
  ELSE [end |-> i, value |-> object]

\* the object that starts at token i: its value and the place after it, or
\* ParseFailed
ParseObject(text, i) ==
  IF i > Len(text) \/ text[i] # "{" THEN ParseFailed
  ELSE LET members == ParseMembers(text, i + 1, EmptyObject)
       IN IF members.end = 0 \/ members.end > Len(text) THEN ParseFailed
          ELSE IF text[members.end] # "}" THEN ParseFailed
          ELSE [end |-> members.end + 1, value |-> members.value]

\* JSON.parse of a text that starts with a brace: the value of the object
\* the whole text is, or a SyntaxError
JSONParse(text) ==
  LET object == ParseObject(text, 1)
  IN IF object.end = Len(text) + 1 THEN [ok |-> TRUE, value |-> object.value]
     ELSE [ok |-> FALSE, value |-> EmptyObject]

Positions(text, token) == {i \in 1..Len(text) : text[i] = token}

Min(S) == CHOOSE i \in S : \A j \in S : i <= j

Max(S) == CHOOSE i \in S : \A j \in S : j <= i

\* aiResponse.match(/\{[\s\S]*\}/): from the first opening brace to the last
\* closing brace after it; None when there is no such pair
jsonMatch(aiResponse) ==
  LET opens == Positions(aiResponse, "{")
      closes == Positions(aiResponse, "}")
  IN IF opens = {} \/ closes = {} THEN None
     ELSE IF Max(closes) < Min(opens) THEN None
     ELSE Some(SubSeq(aiResponse, Min(opens), Max(closes)))

\* ------------------------------------------------------------------- state
VARIABLES
  user_assets,    \* the ownership table: a set of rows
  transactions,   \* the transaction table in insertion order
  pc,             \* where each request stands in the handler
  body,           \* the parsed JSON body of each request
  found,          \* currentOwnership is non-null (a row was selected)
  currentPercent, \* the handler's local of that name
  newPercent,     \* the handler's local of that name
  response,       \* the response each request has been given
  dbCalls,        \* the datastore calls each request has made, in order
  failures,       \* the number of datastore calls that have failed so far
  atArrival       \* handled one after the other: the tables when the latest request arrived

\* the state of the load-curve analyzer: one request to one of the two edge
\* functions
VARIABLES
  variant,           \* "summary": the function that analyzes the CSV itself; "raw": the one that sends the CSV
  method,            \* the HTTP method of the request
  fileContent,       \* the CSV text of the body
  LOVABLE_API_KEY,   \* whether the key is configured
  step,              \* where the request is
  data,              \* the samples parseCSV returned
  analysis,          \* what analyzeLoadCurve returned
  fetchCalls,        \* the number of calls made to the gateway
  gatewayReply,      \* what the gateway answered
  analyzerResponse   \* the response given to the request

tradeVars == <<user_assets, transactions, pc, body, found, currentPercent,
               newPercent, response, dbCalls, failures, atArrival>>

analyzerVars == <<variant, method, fileContent, LOVABLE_API_KEY, step, data,
                  analysis, fetchCalls, gatewayReply, analyzerResponse>>

vars == <<tradeVars, analyzerVars>>

\* the outcomes of a datastore call: it goes through, or the platform fails it
Outcomes == IF failures < MaxFailures THEN {TRUE, FALSE} ELSE {TRUE}

TradeAtRest ==
  /\ user_assets = {}
  /\ transactions = <<>>
  /\ pc = [r \in Requests |-> "idle"]
  /\ body = [r \in Requests |-> NoInput]
  /\ found = [r \in Requests |-> FALSE]
  /\ currentPercent = [r \in Requests |-> 0]
  /\ newPercent = [r \in Requests |-> 0]
  /\ response = [r \in Requests |-> NoResponse]
  /\ dbCalls = [r \in Requests |-> <<>>]
  /\ failures = 0
  /\ atArrival = [user_assets |-> {}, transactions |-> <<>>]

\* no reply of the gateway yet
NoReply == [outcome |-> "none", status |-> 0, content |-> <<>>]

\* no response of the analyzer yet
NoAnalyzerResponse ==
  [status |-> 0, error |-> "", result |-> None, analysis |-> NoAnalysis("")]

\* no request to the analyzer
AnalyzerAtRest ==
  /\ variant = "" /\ method = ""
  /\ fileContent = NoContent
  /\ LOVABLE_API_KEY = FALSE
  /\ step = "off"
  /\ data = <<>>
  /\ analysis = NoAnalysis("")
  /\ fetchCalls = 0
  /\ gatewayReply = NoReply
  /\ analyzerResponse = NoAnalyzerResponse

Init == TradeAtRest /\ AnalyzerAtRest

InFlight(r) == pc[r] \in {"fetch", "write", "record"}

\* the catch block: every throw ends the request with status 400
Throw(r, msg) ==
  /\ pc' = [pc EXCEPT ![r] = "done"]
  /\ response' = [response EXCEPT ![r] = ErrorResponse(msg)]

\* the bodies request r can carry: a body that fails the validation touches
\* no table, so only the last request to arrive is given one
ArrivingInputs(r) ==
  IF r = MaxRequests THEN Inputs ELSE {input \in Inputs : ValidationError(input) = ""}

\* req.json() and the two validation checks, for a body out of inputs
ValidateFrom(r, inputs) ==
  /\ pc[r] = "idle"
  /\ \A q \in 1..(r - 1) : pc[q] # "idle"
  /\ Cardinality({q \in Requests : InFlight(q)}) < MaxInFlight
  /\ \E input \in inputs :
       /\ body' = [body EXCEPT ![r] = input]
       /\ IF ValidationError(input) # ""
          THEN Throw(r, ValidationError(input))
          ELSE pc' = [pc EXCEPT ![r] = "fetch"] /\ UNCHANGED response
  /\ UNCHANGED <<user_assets, transactions, found, currentPercent, newPercent, dbCalls, failures>>
  /\ UNCHANGED analyzerVars

Validate(r) == ValidateFrom(r, ArrivingInputs(r))

\* a request arrives while others may be in flight
Receive(r) == Validate(r) /\ UNCHANGED atArrival

\* the select ... maybeSingle() and the computation of newPercent
FetchOwnership(r) ==
  /\ pc[r] = "fetch"
  /\ dbCalls' = [dbCalls EXCEPT ![r] = Append(@, "select")]
  /\ \E ok \in Outcomes :
       LET rows == MatchingRows(user_assets, body[r].userId, body[r].assetId)
           cur == CurrentPercent(rows)
           pct == body[r].percentage[1]
           err == TradeError(body[r].mode, cur, pct)
       IN /\ failures' = IF ok THEN failures ELSE failures + 1
          /\ IF ~ok \/ Cardinality(rows) > 1
             THEN Throw(r, ErrFetch) /\ UNCHANGED <<found, currentPercent, newPercent>>
             ELSE /\ found' = [found EXCEPT ![r] = rows # {}]
                  /\ currentPercent' = [currentPercent EXCEPT ![r] = cur]
                  /\ IF err # ""
                     THEN Throw(r, err) /\ UNCHANGED newPercent
                     ELSE /\ newPercent' = [newPercent EXCEPT ![r] = NewPercent(body[r].mode, cur, pct)]
                          /\ pc' = [pc EXCEPT ![r] = "write"]
                          /\ UNCHANGED response
  /\ UNCHANGED <<user_assets, transactions, body, atArrival>>
  /\ UNCHANGED analyzerVars

\* the ownership write went through: on to the transaction insert
Written(r, table) ==
  /\ user_assets' = table
  /\ pc' = [pc EXCEPT ![r] = "record"]
  /\ UNCHANGED response

\* the delete / update / insert of the ownership row
WriteOwnership(r) ==
  /\ pc[r] = "write"
  /\ \E ok \in Outcomes :
       LET u == body[r].userId
           a == body[r].assetId
           row == [user_id |-> u, asset_id |-> a, ownership_percent |-> newPercent[r]]
       IN /\ failures' = IF ok THEN failures ELSE failures + 1
          /\ IF newPercent[r] = 0
             THEN /\ dbCalls' = [dbCalls EXCEPT ![r] = Append(@, "delete")]
                  /\ IF ok
                     THEN Written(r, DeleteOwnership(user_assets, u, a))
                     ELSE Throw(r, ErrUpdate) /\ UNCHANGED user_assets
             ELSE IF found[r]
             THEN /\ dbCalls' = [dbCalls EXCEPT ![r] = Append(@, "update")]
                  /\ IF ok /\ UpdateOwnershipAllowed(user_assets, u, a, newPercent[r])
                     THEN Written(r, UpdateOwnership(user_assets, u, a, newPercent[r]))
                     ELSE Throw(r, ErrUpdate) /\ UNCHANGED user_assets
             ELSE /\ dbCalls' = [dbCalls EXCEPT ![r] = Append(@, "insert")]
                  /\ IF ok /\ InsertOwnershipAllowed(user_assets, row)
                     THEN Written(r, InsertOwnership(user_assets, row))
                     ELSE Throw(r, ErrCreate) /\ UNCHANGED user_assets
  /\ UNCHANGED <<transactions, body, found, currentPercent, newPercent, atArrival>>
  /\ UNCHANGED analyzerVars

\* the insert into transactions and the 200 response
RecordTransaction(r) ==
  /\ pc[r] = "record"
  /\ dbCalls' = [dbCalls EXCEPT ![r] = Append(@, "insert_transaction")]
  /\ \E ok \in Outcomes :
       /\ failures' = IF ok THEN failures ELSE failures + 1
       /\ IF ok /\ TransactionCheck(TransactionRow(body[r]))
          THEN /\ transactions' = InsertTransaction(transactions, TransactionRow(body[r]))
               /\ pc' = [pc EXCEPT ![r] = "done"]
               /\ response' = [response EXCEPT ![r] = SuccessResponse(newPercent[r])]
          ELSE Throw(r, ErrTransaction) /\ UNCHANGED transactions
  /\ UNCHANGED <<user_assets, body, found, currentPercent, newPercent, atArrival>>
  /\ UNCHANGED analyzerVars

Next ==
  \E r \in Requests :
    \/ Receive(r)
    \/ FetchOwnership(r)
    \/ WriteOwnership(r)
    \/ RecordTransaction(r)

Spec == Init /\ [][Next]_vars

\* requests handled one after the other: a request arrives only when no
\* other request is in flight
ReceiveSequential(r) ==
  /\ \A q \in Requests : ~InFlight(q)
  /\ Validate(r)
  /\ atArrival' = [user_assets |-> user_assets, transactions |-> transactions]

SeqNext ==
  \E r \in Requests :
    \/ ReceiveSequential(r)
    \/ FetchOwnership(r)
    \/ WriteOwnership(r)
    \/ RecordTransaction(r)

SeqSpec == Init /\ [][SeqNext]_vars

\* trades of two users in two assets, in any interleaving
ReceivePair(r) == ValidateFrom(r, PairInputs) /\ UNCHANGED atArrival

PairNext ==
  \E r \in Requests :
    \/ ReceivePair(r)
    \/ FetchOwnership(r)
    \/ WriteOwnership(r)
    \/ RecordTransaction(r)

PairSpec == Init /\ [][PairNext]_vars

\* ------------------------------------------- the analysis of one CSV text
\* parseCSV and analyzeLoadCurve applied to generated texts and to the named ones, as the
\* summary function applies them
AnalysisInit ==
  /\ TradeAtRest
  /\ variant = "summary" /\ method = "POST"
  /\ \/ \E head \in Heads, rest \in Series(PatternRows) : fileContent = head \o rest
     \/ \E head \in Heads, rest \in Series(EdgeRows) : fileContent = head \o rest
     \/ \E head \in Heads, rest \in Series(OddLines \cup {Row(9, 1), Row(21, 2)}) :
          fileContent = head \o rest
     \/ fileContent \in NamedTexts
  /\ LOVABLE_API_KEY = FALSE
  /\ step = "parse"
  /\ data = <<>>
  /\ analysis = NoAnalysis("")
  /\ fetchCalls = 0
  /\ gatewayReply = NoReply
  /\ analyzerResponse = NoAnalyzerResponse

Parse ==
  /\ step = "parse"
  /\ data' = parseCSV(fileContent)
  /\ step' = "analyze"
  /\ UNCHANGED <<variant, method, fileContent, LOVABLE_API_KEY, analysis,
                 fetchCalls, gatewayReply, analyzerResponse>>
  /\ UNCHANGED tradeVars

Analyze ==
  /\ step = "analyze"
  /\ analysis' = analyzeLoadCurve(data)
  /\ step' = "analyzed"
  /\ UNCHANGED <<variant, method, fileContent, LOVABLE_API_KEY, data,
                 fetchCalls, gatewayReply, analyzerResponse>>
  /\ UNCHANGED tradeVars

AnalysisNext == Parse \/ Analyze

AnalysisSpec == AnalysisInit /\ [][AnalysisNext]_vars

\* ------------------------------------------------- the two analyzer functions
ErrNoContent == "No file content provided"

ErrApiConfig == "API configuration error"

ErrRateLimit == "Rate limit exceeded. Please try again in a moment."

ErrPayment == "Payment required. Please add credits to your workspace."

ErrGateway == "Failed to analyze data"

ErrNoResult == "No analysis result received"

ErrFormat == "Invalid analysis format"

\* the message of the SyntaxError JSON.parse throws
ErrSyntax == "SyntaxError"

\* the message of the error a rejected fetch throws
ErrNetwork == "NetworkError"

AnalyzerError(status, msg) ==
  [status |-> status, error |-> msg, result |-> None, analysis |-> NoAnalysis("")]

\* the function that sends the summary returns the analysis with the result
AnalyzerSuccess(result, summary) ==
  [status |-> 200, error |-> "", result |-> Some(result), analysis |-> summary]

\* the answer to a preflight request: status 200 and no body
PreflightResponse == AnalyzerError(200, "")

\* !fileContent
FalsyContent(content) == content = NoContent \/ content = EmptyText

\* the CSV texts of the requests
RequestContents ==
  {NoContent, EmptyText, <<BlankLine, BlankLine>>,
   <<HeaderLine>>, <<HeaderLine, BlankLine>>, <<HeaderLine, <<Some(9)>>>>,
   <<HeaderLine, Row(15, 1)>>, <<HeaderLine, Row(3, 1), Row(24 + 9, 2)>>,
   AfternoonForty}

AnalyzerInit ==
  /\ TradeAtRest
  /\ variant = "" /\ method = ""
  /\ fileContent = NoContent
  /\ LOVABLE_API_KEY = FALSE
  /\ step = "idle"
  /\ data = <<>>
  /\ analysis = NoAnalysis("")
  /\ fetchCalls = 0
  /\ gatewayReply = NoReply
  /\ analyzerResponse = NoAnalyzerResponse

\* the handler returns a response
Respond(resp) ==
  /\ analyzerResponse' = resp
  /\ step' = "done"

\* the handler calls the gateway and waits for the fetch to settle
CallGateway ==
  /\ fetchCalls' = fetchCalls + 1
  /\ step' = "fetching"
  /\ UNCHANGED analyzerResponse

\* a request to the function that analyzes the CSV itself, up to its call
\* of the gateway
ServeSummary ==
  /\ step = "idle"
  /\ variant' = "summary"
  /\ \E m \in {"OPTIONS", "POST"}, content \in RequestContents, key \in BOOLEAN :
       /\ method' = m /\ fileContent' = content /\ LOVABLE_API_KEY' = key
       /\ IF m = "OPTIONS"
          THEN Respond(PreflightResponse) /\ UNCHANGED <<data, analysis, fetchCalls>>
          ELSE IF FalsyContent(content)
          THEN Respond(AnalyzerError(400, ErrNoContent))
               /\ UNCHANGED <<data, analysis, fetchCalls>>
          ELSE /\ data' = parseCSV(content)
               /\ analysis' = analyzeLoadCurve(data')
               /\ IF analysis'.error # ""
                  THEN Respond(AnalyzerError(500, analysis'.error)) /\ UNCHANGED fetchCalls
                  ELSE IF ~key
                  THEN Respond(AnalyzerError(500, ErrApiConfig)) /\ UNCHANGED fetchCalls
                  ELSE CallGateway
  /\ UNCHANGED gatewayReply
  /\ UNCHANGED tradeVars

\* a request to the function that sends the CSV text itself, up to its call
\* of the gateway
ServeRaw ==
  /\ step = "idle"
  /\ variant' = "raw"
  /\ \E m \in {"OPTIONS", "POST"}, content \in RequestContents, key \in BOOLEAN :
       /\ method' = m /\ fileContent' = content /\ LOVABLE_API_KEY' = key
       /\ IF m = "OPTIONS" THEN Respond(PreflightResponse) /\ UNCHANGED fetchCalls
          ELSE IF FalsyContent(content)
          THEN Respond(AnalyzerError(400, ErrNoContent)) /\ UNCHANGED fetchCalls
          ELSE IF ~key
          THEN Respond(AnalyzerError(500, ErrApiConfig)) /\ UNCHANGED fetchCalls
          ELSE CallGateway
  /\ UNCHANGED <<data, analysis, gatewayReply>>
  /\ UNCHANGED tradeVars

\* what a settled fetch gives: the fetch is rejected, or the gateway answers
\* with a status and, when the status is 200, with the reply of the model
GatewayOutcomes ==
  {[outcome |-> "rejected", status |-> 0, content |-> <<>>]}
    \cup {[outcome |-> "response", status |-> st, content |-> <<>>] : st \in {402, 429, 500}}
    \cup {[outcome |-> "response", status |-> 200, content |-> reply] : reply \in Replies}

\* the gateway, or the network, settles the fetch
GatewayAnswers ==
  /\ step = "fetching"
  /\ gatewayReply' \in GatewayOutcomes
  /\ step' = "settled"
  /\ UNCHANGED <<variant, method, fileContent, LOVABLE_API_KEY, data, analysis,
                 fetchCalls, analyzerResponse>>
  /\ UNCHANGED tradeVars

\* the response for a gateway status that is not ok, without the rate-limit
\* case
GatewayErrorNoRateLimit(status) ==
  IF status = 402 THEN AnalyzerError(402, ErrPayment)
  ELSE AnalyzerError(500, ErrGateway)

\* the response for a gateway status that is not ok
GatewayError(status) ==
  IF status = 429 THEN AnalyzerError(429, ErrRateLimit)
  ELSE IF status = 402 THEN AnalyzerError(402, ErrPayment)
  ELSE AnalyzerError(500, ErrGateway)

\* the response made of the reply of the model
ReplyResponse(aiResponse, summary) ==
  IF aiResponse = <<>> THEN AnalyzerError(500, ErrNoResult)
  ELSE IF jsonMatch(aiResponse) = None THEN AnalyzerError(500, ErrFormat)
  ELSE LET result == JSONParse(jsonMatch(aiResponse)[1])
       IN IF result.ok THEN AnalyzerSuccess(result.value, summary)
          ELSE AnalyzerError(500, ErrSyntax)

\* the handler after the fetch has settled, the same in both functions but
\* for the analysis in the response of the first
HandleReply ==
  /\ step = "settled"
  /\ Respond(IF gatewayReply.outcome = "rejected" THEN AnalyzerError(500, ErrNetwork)
             ELSE IF gatewayReply.status # 200 THEN GatewayError(gatewayReply.status)
             ELSE ReplyResponse(gatewayReply.content,
                                IF variant = "summary" THEN analysis ELSE NoAnalysis("")))
  /\ UNCHANGED <<variant, method, fileContent, LOVABLE_API_KEY, data, analysis,
                 fetchCalls, gatewayReply>>
  /\ UNCHANGED tradeVars

AnalyzerNext == ServeSummary \/ ServeRaw \/ GatewayAnswers \/ HandleReply

AnalyzerSpec == AnalyzerInit /\ [][AnalyzerNext]_vars

\* ----------------------------------------------- what the claims speak of
\* the stored ownership of a (user, asset) pair, 0 when there is no record
Ownership(table, u, a) == CurrentPercent(MatchingRows(table, u, a))

RECURSIVE SumPercent(_)
\* the sum of ownership_percent over a set of rows
SumPercent(rows) ==
  IF rows = {} THEN 0
  ELSE LET row == CHOOSE x \in rows : TRUE
       IN row.ownership_percent + SumPercent(rows \ {row})

\* the sum of the ownership percentages of all users' records for an asset
AssetTotal(table, a) == SumPercent({row \in table : row.asset_id = a})

Arrived == {r \in Requests : pc[r] # "idle"}

\* the request that arrived last
Latest(r) == r \in Arrived /\ \A q \in Arrived : q <= r

Succeeded(r) == response[r].status = 200

Failed(r) == response[r].status = 400

\* request r is given its response in this step
Answered(r) == response[r].status = 0 /\ response'[r].status # 0

IsTrade(r, mode, u, a) ==
  /\ r \in Arrived
  /\ ValidationError(body[r]) = ""
  /\ body[r].mode = mode /\ body[r].userId = u /\ body[r].assetId = a

RECURSIVE SumRequested(_)
\* the sum of the percentages asked for by a set of requests
SumRequested(rs) ==
  IF rs = {} THEN 0
  ELSE LET r == CHOOSE x \in rs : TRUE
       IN body[r].percentage[1] + SumRequested(rs \ {r})

\* ------------------------------------------------------------------ claims

\* C1: under any interleaving of buy requests for one (user, asset) pair no
\* update is lost: when every request that arrived is a buy for that pair
\* and has returned success, the stored ownership is the sum of their
\* percentages.
C1_NoLostUpdate ==
  \A u \in UserIds, a \in AssetIds :
    (/\ Cardinality(Arrived) >= 2
     /\ \A r \in Arrived : IsTrade(r, "buy", u, a) /\ Succeeded(r))
    => Ownership(user_assets, u, a) = SumRequested(Arrived)

\* C2: after every successful trade the ownership percentages of all users'
\* records for an asset sum to at most 100.
C2_AssetTotalAtMost100 ==
  [][\A r \in Requests :
       (Answered(r) /\ Succeeded(r)')
       => \A a \in AssetIds : AssetTotal(user_assets', a) <= 100]_vars

\* C3: a request that ends in an error response leaves the ownership table
\* and the transaction log as they were before the request (requests handled
\* one after the other).
C3_ErrorLeavesTablesUnchanged ==
  \A r \in Requests :
    (Latest(r) /\ Failed(r))
    => /\ user_assets = atArrival.user_assets
       /\ transactions = atArrival.transactions

\* the request's ownership of its pair when it arrived
OwnershipAtArrival(r) == Ownership(atArrival.user_assets, body[r].userId, body[r].assetId)

\* the request's ownership of its pair now
OwnershipNow(r) == Ownership(user_assets, body[r].userId, body[r].assetId)

\* the request was not stopped by a failing datastore call
NoPersistenceError(r) == response[r].error \notin PersistenceErrors

\* C4: requests handled one after the other.  A buy that is not stopped by
\* a datastore failure succeeds and leaves ownership at current + percentage
\* when that is at most 100, and is otherwise rejected with 'Cannot own more
\* than 100% of an asset', the tables unchanged; so while all requests are
\* buys of one user on one asset and the running sum is at most 100, every
\* buy has succeeded and the ownership is the running sum.
C4_SequentialBuys ==
  /\ \A r \in Requests, u \in UserIds, a \in AssetIds :
       (Latest(r) /\ pc[r] = "done" /\ IsTrade(r, "buy", u, a) /\ NoPersistenceError(r))
       => IF OwnershipAtArrival(r) + body[r].percentage[1] <= 100
          THEN /\ response[r] = SuccessResponse(OwnershipAtArrival(r) + body[r].percentage[1])
               /\ OwnershipNow(r) = OwnershipAtArrival(r) + body[r].percentage[1]
          ELSE /\ response[r] = ErrorResponse(ErrOverbuy)
               /\ user_assets = atArrival.user_assets
               /\ transactions = atArrival.transactions
  /\ \A u \in UserIds, a \in AssetIds :
       (/\ \A r \in Arrived : pc[r] = "done" /\ IsTrade(r, "buy", u, a) /\ NoPersistenceError(r)
        /\ SumRequested(Arrived) <= 100)
       => /\ \A r \in Arrived : Succeeded(r)
          /\ Ownership(user_assets, u, a) = SumRequested(Arrived)

\* three buys of one user on one asset were handled one after the other: two
\* succeeded and the stored ownership is their sum, and the third, which
\* would bring it above 100, was rejected
C4_Witness ==
  /\ \A r \in 1..3 : IsTrade(r, "buy", "u1", "a1")
  /\ Succeeded(1) /\ Succeeded(2) /\ response[3] = ErrorResponse(ErrOverbuy)
  /\ Ownership(user_assets, "u1", "a1") = body[1].percentage[1] + body[2].percentage[1]
  /\ Ownership(user_assets, "u1", "a1") + body[3].percentage[1] > 100

\* C5: requests handled one after the other.  No stored ownership is
\* negative; a sell of more than the current ownership is rejected with
\* 'Insufficient ownership to sell' (unless the select already failed), the
\* tables unchanged; a sell of exactly the current ownership whose ownership
\* write went through has deleted the record of the pair, and no record
\* stores 0.
C5_SequentialSells ==
  /\ \A row \in user_assets : row.ownership_percent > 0
  /\ \A r \in Requests, u \in UserIds, a \in AssetIds :
       (Latest(r) /\ pc[r] = "done" /\ IsTrade(r, "sell", u, a))
       => /\ body[r].percentage[1] > OwnershipAtArrival(r)
             => /\ response[r].error \in {ErrInsufficient, ErrFetch}
                /\ user_assets = atArrival.user_assets
                /\ transactions = atArrival.transactions
          /\ (/\ body[r].percentage[1] = OwnershipAtArrival(r)
              /\ response[r].error \notin {ErrFetch, ErrUpdate})
             => /\ dbCalls[r][2] = "delete"
                /\ MatchingRows(user_assets, u, a) = {}

\* a sell of the whole holding succeeded and left no record, after a sell of
\* more than the holding was rejected
C5_Witness ==
  /\ IsTrade(1, "buy", "u1", "a1") /\ Succeeded(1)
  /\ IsTrade(2, "sell", "u1", "a1") /\ Succeeded(2)
  /\ body[1].percentage = body[2].percentage
  /\ IsTrade(3, "sell", "u1", "a1") /\ response[3] = ErrorResponse(ErrInsufficient)
  /\ MatchingRows(user_assets, "u1", "a1") = {}

\* C6: a request that returns success appends exactly one transaction
\* record, carrying the request's percentage and price and their product as
\* total_price; a request that returns an error appends none, and nothing
\* else appends: the log is as long as the number of successful requests.
C6_OneRecordPerSuccess ==
  /\ [](Len(transactions) = Cardinality({r \in Requests : Succeeded(r)}))
  /\ [][\A r \in Requests :
          Answered(r)
          => IF Succeeded(r)'
             THEN /\ Len(transactions') = Len(transactions) + 1
                  /\ SubSeq(transactions', 1, Len(transactions)) = transactions
                  /\ LET row == transactions'[Len(transactions')]
                     IN /\ row.percent_traded = body[r].percentage[1]
                        /\ row.price_per_percent = body[r].pricePerPercent[1]
                        /\ row.total_price = body[r].percentage[1] * body[r].pricePerPercent[1]
             ELSE transactions' = transactions]_vars

\* one request has succeeded and one has failed after its ownership write,
\* and the log holds the one record of the successful request
C6_Witness ==
  /\ \E r \in Requests : Succeeded(r) /\ body[r].percentage = Some(10)
  /\ \E r \in Requests : response[r].error = ErrTransaction
  /\ Len(transactions) = 1
  /\ transactions[1].total_price = 30

\* C7: there is at most one ownership record per (user, asset) pair and every
\* stored percentage p satisfies 0 < p <= 100.
C7_OwnershipTableInvariant ==
  /\ \A u \in UserIds, a \in AssetIds : Cardinality(MatchingRows(user_assets, u, a)) <= 1
  /\ \A row \in user_assets : row.ownership_percent > 0 /\ row.ownership_percent <= 100

\* two requests selected no record for the same pair and both went on to
\* insert one: the table holds one record and the other insert was refused
C7_Witness ==
  \E r, q \in Requests :
    /\ r # q /\ body[r].userId = body[q].userId /\ body[r].percentage # body[q].percentage
    /\ dbCalls[r] = <<"select", "insert">> /\ response[r].error = ErrCreate
    /\ Len(dbCalls[q]) >= 2 /\ dbCalls[q][2] = "insert" /\ response[q].error # ErrCreate
    /\ Cardinality(MatchingRows(user_assets, body[r].userId, body[r].assetId)) = 1

\* C8: every transaction record has exactly one of buyer and seller
\* populated, the buyer when its kind is buy and the seller when its kind is
\* sell, the kind is buy or sell, and the populated party is the user of the
\* request that appended it.
C8_ExactlyOneParty ==
  /\ [](\A i \in 1..Len(transactions) :
          LET row == transactions[i]
          IN /\ row.transaction_type \in {"buy", "sell"}
             /\ row.transaction_type = "buy" => row.buyer_id # NULL /\ row.seller_id = NULL
             /\ row.transaction_type = "sell" => row.seller_id # NULL /\ row.buyer_id = NULL)
  /\ [][\A r \in Requests :
          (Answered(r) /\ Succeeded(r)')
          => LET row == transactions'[Len(transactions')]
             IN /\ row.transaction_type = body[r].mode
                /\ row.transaction_type = "buy" => row.buyer_id = body[r].userId
                /\ row.transaction_type = "sell" => row.seller_id = body[r].userId]_vars

\* the log holds a buy and a sell, and a request of another mode was refused
\* by the transactions table
C8_Witness ==
  /\ \E i \in 1..Len(transactions) : transactions[i].transaction_type = "buy"
  /\ \E i \in 1..Len(transactions) : transactions[i].transaction_type = "sell"
  /\ \E r \in Requests : body[r].mode = "hold" /\ response[r].error = ErrTransaction

\* C9: the transaction log is append-only: every step leaves it unchanged or
\* appends one record at its end.
C9_AppendOnly ==
  [][\/ transactions' = transactions
     \/ /\ Len(transactions') = Len(transactions) + 1
        /\ SubSeq(transactions', 1, Len(transactions)) = transactions]_vars

\* the log holds records of different requests in the order of their inserts
C9_Witness ==
  /\ Len(transactions) = 3
  /\ transactions[1] # transactions[2] /\ transactions[2] # transactions[3]

\* the bodies the claim C10 speaks of: a field is absent or the percentage
\* is not in (0, 100]
AbsentOrOutOfRange(input) ==
  \/ input.assetId = "" \/ input.userId = "" \/ input.mode = ""
  \/ input.percentage = None \/ input.pricePerPercent = None
  \/ input.percentage[1] <= 0 \/ input.percentage[1] > 100

\* C10: a request with an absent field or a percentage outside (0, 100] is
\* rejected with a validation error before any datastore call, the ownership
\* records and the transaction log unchanged.
C10_ValidationFirst ==
  /\ [](\A r \in Arrived :
          AbsentOrOutOfRange(body[r])
          => /\ pc[r] = "done"
             /\ response[r].status = 400 /\ response[r].error \in ValidationErrors
             /\ dbCalls[r] = <<>>)
  /\ [][\A r \in Requests :
          (pc[r] = "idle" /\ pc'[r] # "idle" /\ AbsentOrOutOfRange(body'[r]))
          => user_assets' = user_assets /\ transactions' = transactions]_vars

\* a request with a percentage above 100 was rejected after trades had filled
\* the tables
C10_Witness ==
  /\ \E r \in Requests :
       /\ body[r].percentage = Some(101)
       /\ response[r] = ErrorResponse(ErrInvalidPercentage) /\ dbCalls[r] = <<>>
  /\ user_assets # {} /\ transactions # <<>>

\* C11: every trade request gets exactly one response, never changed once
\* given: status 200 with the new ownership on success, status 400 with an
\* error string on a validation or business-rule failure (and on any other
\* failure); with requests handled one after the other the newOwnership
\* returned equals the ownership stored for the request's (user, asset) pair
\* after the request, 0 standing for no record.
C11_OneResponse ==
  /\ [](\A r \in Requests :
          /\ (pc[r] = "done") <=> (response[r].status # 0)
          /\ response[r].status \in {0, 200, 400}
          /\ response[r].status = 200 => response[r].error = ""
          /\ response[r].status = 400
             => response[r].error
                  \in ValidationErrors \cup BusinessErrors \cup PersistenceErrors
          /\ (pc[r] = "done" /\ ValidationError(body[r]) # "")
             => response[r] = [status |-> 400, error |-> ValidationError(body[r]),
                               newOwnership |-> 0]
          /\ (Latest(r) /\ Succeeded(r))
             => response[r].newOwnership = OwnershipNow(r))
  /\ [][\A r \in Requests :
          response[r].status # 0 => response'[r] = response[r]]_vars

\* a buy and a sale of everything held were answered with the stored
\* ownership, the sale with 0 for the record it deleted, and a request was
\* refused by a business rule
C11_Witness ==
  \E q, r, t \in Requests :
    /\ Latest(r) /\ q < r
    /\ Succeeded(q) /\ response[q].newOwnership > 0
    /\ Succeeded(r) /\ body[r].mode = "sell"
    /\ response[r].newOwnership = 0
    /\ MatchingRows(user_assets, body[r].userId, body[r].assetId) = {}
    /\ response[t].status = 400 /\ response[t].error \in BusinessErrors

\* the CSV text is empty or holds one line only, its header
EmptyOrHeaderOnly(content) == content # NoContent /\ Len(TrimmedLines(content)) = 1

\* C12: in both analyzer functions a request whose CSV text is empty or
\* holds a header line only is rejected with an error response: it never
\* reaches the call of the gateway and never gets a success response.
C12_EmptyCsvRejected ==
  (method = "POST" /\ EmptyOrHeaderOnly(fileContent))
  => /\ fetchCalls = 0
     /\ step = "done"
     /\ analyzerResponse.status \in {400, 500} /\ analyzerResponse.error # ""

\* the analysis of the text has been made
Analyzed == step = "analyzed" /\ analysis.error = ""

\* bucket b holds the largest of the four shares
Largest(b) == \A c \in BucketNames : timeSlots(data)[c] <= timeSlots(data)[b]

\* the share of bucket b is above n percent of a total that is not zero
Above(b, n) == 100 * timeSlots(data)[b] > n * SumValues(data)

\* C13: the pattern label is daytime-driven if the afternoon share is the
\* largest of the four shares and above 35%, else evening-driven if the
\* evening share is the largest and above 35%, else night-driven if the
\* night share is the largest and above 30%, else mixed; a series with 40%
\* of the consumption in the afternoon, more than in any other bucket, is
\* daytime-driven.
C13_PatternLabel ==
  Analyzed
  => /\ analysis.pattern =
          IF Largest("afternoon") /\ Above("afternoon", 35) THEN "daytime-driven"
          ELSE IF Largest("evening") /\ Above("evening", 35) THEN "evening-driven"
          ELSE IF Largest("night") /\ Above("night", 30) THEN "night-driven"
          ELSE "mixed"
     /\ fileContent = AfternoonForty => analysis.pattern = "daytime-driven"

\* the series with 40% in the afternoon, 30% in the night and 30% in the
\* evening was labelled
C13_Witness ==
  /\ Analyzed /\ fileContent = AfternoonForty
  /\ timeSlots(data) = [b \in BucketNames |->
                          IF b = "afternoon" THEN 4 ELSE IF b = "morning" THEN 0 ELSE 3]
  /\ analysis.pattern = "daytime-driven"

\* two or more buckets share the maximal share
Tie == \E b, c \in BucketNames : b # c /\ Largest(b) /\ Largest(c)

\* C14 as stated: whenever two or more buckets share the maximal share, or
\* the morning bucket holds the maximal share, the label is mixed.
C14_TiesAndMorningMixed ==
  (Analyzed /\ (Tie \/ Largest("morning"))) => analysis.pattern = "mixed"

\* C14 amended: the morning bucket never produces a driven label, and a tie
\* is settled by the order of the tests.  When the morning bucket alone holds
\* the maximal share the label is mixed; when two or more buckets share the
\* maximal share the label is that of the first of afternoon (above 35%),
\* evening (above 35%) and night (above 30%) that is among them and above its
\* threshold, and mixed when there is none.
C14_MorningMixedTiesInOrder ==
  Analyzed
  => /\ (Largest("morning") /\ ~Tie) => analysis.pattern = "mixed"
     /\ Tie => analysis.pattern =
                 IF Largest("afternoon") /\ Above("afternoon", 35) THEN "daytime-driven"
                 ELSE IF Largest("evening") /\ Above("evening", 35) THEN "evening-driven"
                 ELSE IF Largest("night") /\ Above("night", 30) THEN "night-driven"
                 ELSE "mixed"
     /\ analysis.pattern \in {"daytime-driven", "evening-driven", "night-driven", "mixed"}

\* afternoon and evening share the maximal share and the label is
\* daytime-driven
C14_Witness ==
  /\ Analyzed
  /\ Largest("afternoon") /\ Largest("evening") /\ Above("afternoon", 35)
  /\ analysis.pattern = "daytime-driven"

\* the hours of the day the claim gives each bucket
HoursOf(b) ==
  IF b = "night" THEN 0..5
  ELSE IF b = "morning" THEN 6..11
  ELSE IF b = "afternoon" THEN 12..17
  ELSE 18..23

\* the samples taken at an hour of bucket b
SamplesOf(b) ==
  SelectSeq(data, LAMBDA d : d.timestamp # InvalidDate /\ d.timestamp % 24 \in HoursOf(b))

\* the sum of the four bucket sums
SumOfSlots ==
  timeSlots(data)["night"] + timeSlots(data)["morning"]
    + timeSlots(data)["afternoon"] + timeSlots(data)["evening"]

\* the four shares are numbers and add up to 100
SharesAddUpTo100 ==
  /\ \A b \in BucketNames : ~IsNaN(timeSlotPercentages(data)[b])
  /\ timeSlotPercentages(data)["night"].num + timeSlotPercentages(data)["morning"].num
       + timeSlotPercentages(data)["afternoon"].num
       + timeSlotPercentages(data)["evening"].num
     = 100 * SumValues(data)

\* C15: every parsed sample's value is added to exactly one of the four
\* buckets, the one of its hour h (night 0 <= h < 6, morning 6 <= h < 12,
\* afternoon 12 <= h < 18, evening 18 <= h < 24), so the four bucket sums add
\* up to the total and the four shares add up to 100%.
C15_BucketsPartition ==
  Analyzed
  => /\ (\A i \in DOMAIN data : data[i].timestamp # InvalidDate)
        => \A b \in BucketNames : timeSlots(data)[b] = SumValues(SamplesOf(b))
     /\ SumOfSlots = SumValues(data)
     /\ SharesAddUpTo100

\* the text of the number n with so many digits after the point
Decimal(n, digits) == [text |-> "number", units |-> n * Power10(digits), digits |-> digits]

\* C16: for every series that is not empty the reported total is the sum of
\* all sample values, the reported peak the largest sample value and
\* dataPoints the number of samples; for 24 hourly samples of 10 the total is
\* 240, the peak 10, every share 25% and the pattern mixed.
C16_TotalPeakCount ==
  Analyzed
  => /\ analysis.totalConsumption = Decimal(SumValues(data), 2)
     /\ \E i \in DOMAIN data : analysis.peakLoad = Decimal(data[i].value, 4)
     /\ \A i \in DOMAIN data : Decimal(data[i].value, 4).units <= analysis.peakLoad.units
     /\ analysis.dataPoints = Len(data)
     /\ fileContent = DayOfTens
        => /\ analysis.totalConsumption = Decimal(240, 2)
           /\ analysis.peakLoad = Decimal(10, 4)
           /\ \A b \in BucketNames : analysis.timeOfDay[b] = Decimal(25, 1)
           /\ analysis.pattern = "mixed"
           /\ analysis.dataPoints = 24

\* the 24 hourly samples of 10 were analyzed
C16_Witness ==
  /\ Analyzed /\ fileContent = DayOfTens
  /\ Len(data) = 24 /\ \A i \in DOMAIN data : data[i] = [timestamp |-> i - 1, value |-> 10]
  /\ analysis.totalConsumption.units = 24000

\* the places of the reply where a JSON object starts
ObjectStarts(reply) == {i \in 1..Len(reply) : ParseObject(reply, i).end # 0}

\* the value of the first JSON object of the reply
FirstObject(reply) == ParseObject(reply, Min(ObjectStarts(reply))).value

\* the request got the reply of the model and was answered
RepliedTo ==
  /\ step = "done" /\ fetchCalls = 1
  /\ gatewayReply.outcome = "response" /\ gatewayReply.status = 200
  /\ gatewayReply.content # <<>>

\* C17: for every reply of the model that holds a JSON object, whatever the
\* prose around it, braces in the prose included, the analyzer returns the
\* first balanced-brace JSON object of the reply; for a reply that holds no
\* JSON object it returns a format error.
C17_ExtractsFirstObject ==
  RepliedTo
  => IF ObjectStarts(gatewayReply.content) # {}
     THEN /\ analyzerResponse.status = 200
          /\ analyzerResponse.result = Some(FirstObject(gatewayReply.content))
     ELSE /\ analyzerResponse.status = 500
          /\ analyzerResponse.error \in {ErrFormat, ErrSyntax}

\* the gateway answered the call with this status
GatewayStatus(status) ==
  fetchCalls = 1 /\ gatewayReply.outcome = "response" /\ gatewayReply.status = status

\* the reply of the model has no brace pair, or what the braces hold is no
\* JSON
Unextractable(reply) ==
  \/ jsonMatch(reply) = None
  \/ jsonMatch(reply) # None /\ ~JSONParse(jsonMatch(reply)[1]).ok

\* C18: each failure of an analysis request is answered with one error
\* response of a fixed status: a missing fileContent with 400, a gateway
\* answer 402 with 402, a gateway answer 429 with 429, a missing API key,
\* any other gateway failure, an empty reply and a reply that cannot be
\* extracted or parsed with 500; the gateway is called once at most, so 429
\* and 402 are passed on without a second call.
C18_ErrorStatuses ==
  /\ fetchCalls <= 1
  /\ (method = "POST" /\ step = "done")
     => /\ FalsyContent(fileContent) => analyzerResponse.status = 400
        /\ (~FalsyContent(fileContent) /\ ~LOVABLE_API_KEY) => analyzerResponse.status = 500
        /\ GatewayStatus(402) => analyzerResponse.status = 402
        /\ GatewayStatus(429) => analyzerResponse.status = 429
        /\ GatewayStatus(500) => analyzerResponse.status = 500
        /\ (fetchCalls = 1 /\ gatewayReply.outcome = "rejected")
           => analyzerResponse.status = 500
        /\ (GatewayStatus(200) /\ gatewayReply.content = <<>>)
           => analyzerResponse.status = 500
        /\ (GatewayStatus(200) /\ gatewayReply.content # <<>>
              /\ Unextractable(gatewayReply.content))
           => analyzerResponse.status = 500
        /\ analyzerResponse.status # 200
           => /\ analyzerResponse.status \in {400, 402, 429, 500}
              /\ analyzerResponse.error # "" /\ analyzerResponse.result = None

\* the gateway answered 429 and the request was answered 429 after one call
C18_Witness ==
  /\ method = "POST" /\ step = "done" /\ GatewayStatus(429)
  /\ analyzerResponse = AnalyzerError(429, ErrRateLimit)

\* a step the handler takes by itself, the gateway doing nothing
HandlerStep == ServeSummary \/ ServeRaw \/ HandleReply

\* C19: the call of the gateway has a timeout: every analysis request is
\* answered in the end, with a timeout error of its own, even when the
\* gateway never answers.  So while the request waits for the gateway the
\* handler has a step it can take without the gateway, and no request is
\* left where only an answer of the gateway lets it go on.
C19_TimeoutWhileWaiting == step = "fetching" => ENABLED HandlerStep

\* the object has a recommended_mix whose PV, Wind and Battery are numbers
HasRecommendedMix(object) ==
  /\ object.recommended_mix # None
  /\ object.recommended_mix[1].fields = "numeric"

\* C20: the analyzer validates the shape of the JSON it extracted: a request
\* is answered 200 only when the parsed object has a recommended_mix with
\* numeric PV, Wind and Battery, and an object of any other shape is answered
\* with a format error; the sum of the three numbers is not checked.
C20_ShapeValidated ==
  (RepliedTo /\ jsonMatch(gatewayReply.content) # None
     /\ JSONParse(jsonMatch(gatewayReply.content)[1]).ok)
  => IF HasRecommendedMix(JSONParse(jsonMatch(gatewayReply.content)[1]).value)
     THEN analyzerResponse.status = 200
     ELSE analyzerResponse.status = 500 /\ analyzerResponse.error # ""

\* the first and the last sample of the series have the same timestamp
ZeroSpan(samples) ==
  samples # <<>> /\ samples[1].timestamp = samples[Len(samples)].timestamp

\* C21: an analysis whose first and last samples have the same timestamp (a
\* day span of 0, as for a CSV of one sample) is treated as an error: the
\* request gets no success response, and no success response carries an
\* average daily consumption that is infinite or not a number.
C21_ZeroSpanIsError ==
  (variant = "summary" /\ method = "POST")
  => /\ ZeroSpan(data) => analyzerResponse.status # 200
     /\ analyzerResponse.status = 200
        => analyzerResponse.analysis.avgDailyConsumption.text = "number"

\* the text has been parsed
Parsed == step \in {"analyze", "analyzed"}

\* the line has a timestamp field and a value field, neither of them empty
HasBothFields(line) == Len(line) >= 2 /\ line[1] # None /\ line[2] # None

\* the places, after the first line, of the lines of the text that have both
\* fields; the text is taken without the white space around it
SampleLines ==
  {i \in 2..Len(TrimmedLines(fileContent)) : HasBothFields(TrimmedLines(fileContent)[i])}

\* the place of the j-th of these lines
SampleLine(j) == CHOOSE i \in SampleLines : Cardinality({k \in SampleLines : k <= i}) = j

\* C22: parsing skips the first line, the header, and then emits one sample
\* for every later line that has both the timestamp and the value field and
\* skips every other line without an error; the samples come out in the
\* order of the lines and their number is the number of lines after the
\* header that have both fields.
C22_ParseSkipsAndKeepsOrder ==
  Parsed
  => /\ Len(data) = Cardinality(SampleLines)
     /\ \A j \in 1..Len(data) :
          /\ data[j].timestamp = TrimmedLines(fileContent)[SampleLine(j)][1][1]
          /\ data[j].value = TrimmedLines(fileContent)[SampleLine(j)][2][1]

\* a line without a value stood between two samples and a header that reads
\* like a sample stood first: two samples came out, in the order of the lines
C22_Witness ==
  /\ Parsed
  /\ fileContent = <<Row(15, 2), Row(21, 2), <<Some(9)>>, Row(9, 1)>>
  /\ data = <<[timestamp |-> 21, value |-> 2], [timestamp |-> 9, value |-> 1]>>

RECURSIVE SumTraded(_)
\* the sum of percent_traded over a sequence of transaction records
SumTraded(records) ==
  IF records = <<>> THEN 0
  ELSE Head(records).percent_traded + SumTraded(Tail(records))

\* the percentage the log records as bought by user u of asset a
Bought(u, a) ==
  SumTraded(SelectSeq(transactions,
                      LAMBDA t : t.transaction_type = "buy" /\ t.buyer_id = u /\ t.asset_id = a))

\* the percentage the log records as sold by user u of asset a
Sold(u, a) ==
  SumTraded(SelectSeq(transactions,
                      LAMBDA t : t.transaction_type = "sell" /\ t.seller_id = u /\ t.asset_id = a))

\* C23: in every state where no trade request is in flight, whatever the
\* interleaving of the requests before, the stored ownership of each (user,
\* asset) pair, 0 without a record, is the sum of percent_traded over the
\* user's buy records of the asset minus the sum over the user's sell
\* records.
C23_OwnershipMatchesLog ==
  (\A r \in Requests : ~InFlight(r))
  => \A u \in UserIds, a \in AssetIds :
       Ownership(user_assets, u, a) = Bought(u, a) - Sold(u, a)

\* C24: concurrent sell requests cannot oversell: under any interleaving the
\* percentage recorded in the sell transactions of a (user, asset) pair never
\* exceeds the percentage recorded in its buy transactions, so two concurrent
\* sells of a user's whole holding do not both succeed.  Taken where it is
\* weakest: in the states where no request is in flight, so that a sell
\* recorded while the record of its buy is still on the way does not count.
C24_NoOversell ==
  (\A r \in Requests : ~InFlight(r))
  => \A u \in UserIds, a \in AssetIds : Sold(u, a) <= Bought(u, a)

\* C25: a trade request whose mode is neither buy nor sell is rejected with
\* an error response and changes no ownership record and no transaction
\* record (requests handled one after the other).
C25_OtherModeChangesNothing ==
  \A r \in Requests :
    (Latest(r) /\ pc[r] = "done" /\ body[r].mode \notin {"buy", "sell"})
    => /\ response[r].status = 400 /\ response[r].error # ""
       /\ user_assets = atArrival.user_assets
       /\ transactions = atArrival.transactions

\* the ownership records of the pair (u, a)
RecordsOf(table, u, a) == {row \in table : row.user_id = u /\ row.asset_id = a}

\* request r takes a step
Steps(r) == pc'[r] # pc[r]

\* the datastore calls of the handler: four on user_assets, one on
\* transactions, none on the asset table
TradeCalls == {"select", "insert", "update", "delete", "insert_transaction"}

\* C26: a trade request for (userId, assetId) reads and writes only the
\* ownership record of that pair and appends only a transaction of that
\* asset and user: in every step of the request, whether it ends in success
\* or in an error, the ownership records of every other pair are unchanged,
\* what it reads is the record of its pair, the log is unchanged or longer by
\* one record of its asset and user, and it makes no call on the asset table.
C26_OnlyOwnPair ==
  [][\A r \in Requests :
       Steps(r)
       => LET u == body'[r].userId
              a == body'[r].assetId
          IN /\ \A v \in UserIds, b \in AssetIds :
                  (v # u \/ b # a)
                  => RecordsOf(user_assets', v, b) = RecordsOf(user_assets, v, b)
             /\ pc'[r] = "write"
                => currentPercent'[r]
                     = IF RecordsOf(user_assets, u, a) = {} THEN 0
                       ELSE (CHOOSE row \in RecordsOf(user_assets, u, a) : TRUE).ownership_percent
             /\ \/ transactions' = transactions
                \/ /\ Len(transactions') = Len(transactions) + 1
                   /\ SubSeq(transactions', 1, Len(transactions)) = transactions
                   /\ transactions'[Len(transactions')].asset_id = a
                   /\ {transactions'[Len(transactions')].buyer_id,
                       transactions'[Len(transactions')].seller_id} = {u, NULL}
             /\ \A i \in DOMAIN dbCalls'[r] : dbCalls'[r][i] \in TradeCalls]_vars

\* the first user holds a share of both assets and the other user a share of
\* the first asset, after a request that succeeded and one that failed
C26_Witness ==
  /\ RecordsOf(user_assets, "u1", "a2") # {}
  /\ RecordsOf(user_assets, "u2", "a1") # {}
  /\ \E q, r \in Requests :
       /\ response[q].status = 200 /\ body[q].userId = "u1" /\ body[q].assetId = "a2"
       /\ response[r].status = 400 /\ dbCalls[r] # <<>>
       /\ body[r].userId = "u1" /\ body[r].assetId = "a1"

\* the request was rejected before the gateway was asked: for a missing
\* fileContent, for a CSV without samples or for a missing API key
RejectedEarly ==
  /\ step = "done"
  /\ analyzerResponse.error \in {ErrNoContent, ErrNoData, ErrApiConfig}

\* C27: in the function that sends the summary, the gateway is called only
\* after the input check, the parsing, the analysis and the API-key check have
\* passed: a request that made the call is a POST with a fileContent, at least
\* one parsed sample, an analysis and an API key; a request rejected for a
\* missing fileContent, for zero samples or for a missing key made no call;
\* and no request makes more than one call.
C27_GatewayCalledLastAndOnce ==
  variant = "summary"
  => /\ fetchCalls <= 1
     /\ fetchCalls = 1
        => /\ method = "POST"
           /\ fileContent # NoContent /\ fileContent # EmptyText
           /\ data = parseCSV(fileContent) /\ Len(data) > 0
           /\ analysis = analyzeLoadCurve(data) /\ analysis.error = ""
           /\ LOVABLE_API_KEY
     /\ step \in {"fetching", "settled"} => fetchCalls = 1
     /\ RejectedEarly => fetchCalls = 0

\* a request with the summary has called the gateway and has been answered
C27_Witness ==
  /\ variant = "summary" /\ step = "done"
  /\ fetchCalls = 1
  /\ analyzerResponse.status = 200 /\ analyzerResponse.result # None
====
